---- MODULE Spec2Model ----
(***************************************************************************)
(* Model of package feng (envs.go): the .env file reader (ReadEnvFile and  *)
(* the line pattern lineRegx), Load, and the environment-table helpers     *)
(* SetenvMap, GetenvMap and ClearEnvSetting, and the helper removeQuotes.  *)
(*                                                                         *)
(* A string is a sequence of symbols.  Every symbol is one character,      *)
(* except the symbol "export", which stands for the six letters e x p o r  *)
(* t.  None of those letters is a symbol of its own, and every pattern     *)
(* element that can follow a run of letters (\s, =, :, #, a quote, the end *)
(* of the line) rejects a letter, so no match can end inside the word:     *)
(* treating it as one symbol loses nothing.                                *)
(***************************************************************************)
EXTENDS Integers, Sequences, FiniteSets, TLC

VARIABLES
  fs,       \* the file system: file name -> [exists, lines]
  env,      \* the environment table of the process: key -> value
  handles,  \* number of file handles opened by ReadEnvFile and not closed
  call,     \* the exported function called last ("none" before the first)
  pc,       \* position inside that call; "done" once it has returned
  args,     \* Load: filenames
  idx,      \* Load: index of the file being read
  file,     \* ReadEnvFile: filename
  scanPos,  \* ReadEnvFile: index of the next line the scanner delivers
  readMap,  \* ReadEnvFile: envMap
  loadMap,  \* Load: envMap
  setArg,   \* SetenvMap: envMap
  todo,     \* SetenvMap: keys the range loop has not visited yet
  prefix,   \* GetenvMap: prefix
  names,    \* ClearEnvSetting: envNames
  ret,      \* the map returned by the call
  err,      \* the error returned by the call ("nil" for none)
  sets,     \* number of os.Setenv calls made by the call so far
  quoteArg, \* removeQuotes: s
  quoteRet  \* removeQuotes: the string returned

vars == <<fs, env, handles, call, pc, args, idx, file, scanPos, readMap,
          loadMap, setArg, todo, prefix, names, ret, err, sets,
          quoteArg, quoteRet>>

----------------------------------------------------------------------------
(* Bounds of the model *)

\* longest file (in lines) of the file system explored by Spec
MaxLines == 2
\* longest argument list of Load
MaxFiles == 2
\* most file handles left open before the exploration stops opening files
MaxHandles == 2
\* longest argument list of ClearEnvSetting
MaxNames == 2
\* longest remainder of a line, after its beginning, explored exhaustively
MaxTail == 4
\* longest string handed to removeQuotes on its own
MaxQuoteLen == 4

----------------------------------------------------------------------------
(* Characters and strings *)

SP == " "
SQ == "'"
DQ == "\""
HASH == "#"
EQ == "="
COLON == ":"
EXPORT == "export"

\* Go's regexp class \s and strings.TrimSpace, on the symbols of the model
IsSpace(c) == c = SP

\* the class [\w\.] of lineRegx
IsWord(c) == c \in {"K", "J", "a", "b", ".", "_", "1", EXPORT}

\* the class [^#\n] of lineRegx (a line holds no newline)
NotHash(c) == c # HASH

Min(S) == CHOOSE x \in S : \A y \in S : x <= y
Max(S) == CHOOSE x \in S : \A y \in S : x >= y

\* the elements of a set of integers, largest first / smallest first
Desc(S) == [k \in 1..Cardinality(S) |->
              CHOOSE x \in S : Cardinality({y \in S : y > x}) = k - 1]
Asc(S) == [k \in 1..Cardinality(S) |->
              CHOOSE x \in S : Cardinality({y \in S : y < x}) = k - 1]

\* strings.TrimSpace
TrimSpace(s) ==
  LET keep == {i \in 1..Len(s) : ~IsSpace(s[i])}
  IN  IF keep = {} THEN <<>> ELSE SubSeq(s, Min(keep), Max(keep))

\* strings.HasPrefix
HasPrefix(s, p) == Len(s) >= Len(p) /\ SubSeq(s, 1, Len(p)) = p

\* strings.TrimPrefix
TrimPrefix(s, p) == IF HasPrefix(s, p) THEN SubSeq(s, Len(p) + 1, Len(s)) ELSE s

\* a variant of removeQuotes that does not compare the two quote characters
removeQuotesAnyPair(s) ==
  IF Len(s) < 2 THEN s
  ELSE LET firstChar == s[1]
           lastChar == s[Len(s)]
       IN  IF (firstChar = DQ \/ firstChar = SQ) /\ (lastChar = DQ \/ lastChar = SQ)
           THEN SubSeq(s, 2, Len(s) - 1)
           ELSE s

removeQuotes(s) ==
  IF Len(s) < 2 THEN s
  ELSE LET firstChar == s[1]
           lastChar == s[Len(s)]
       IN  IF (firstChar = DQ /\ lastChar = DQ) \/ (firstChar = SQ /\ lastChar = SQ)
           THEN SubSeq(s, 2, Len(s) - 1)
           ELSE s

----------------------------------------------------------------------------
(* lineRegx, matched the way Go's regexp package matches: the result is    *)
(* the first match a backtracking search finds, trying the alternatives of *)
(* | left to right, greedy repetitions longest first and the lazy +?       *)
(* shortest first.  Each operator below lists, in that order of            *)
(* preference, the positions where one element of the pattern can end.     *)

NoMatch == <<>>

\* the positions j >= i such that every symbol of s[i..j-1] satisfies P
Runs(s, i, P(_)) == {j \in i..(Len(s) + 1) : \A k \in i..(j - 1) : P(s[k])}

\* the first candidate (in order) from which the rest of the pattern matches
TryFirst(cands, F(_)) ==
  LET ok == {i \in 1..Len(cands) : F(cands[i]) # NoMatch}
  IN  IF ok = {} THEN NoMatch ELSE F(cands[Min(ok)])

\* \s*
SpaceEnds(s, p) == Desc(Runs(s, p, IsSpace))

\* (?:export\s+)?
ExportEnds(s, p) ==
  IF p <= Len(s) /\ s[p] = EXPORT
  THEN Desc(Runs(s, p + 1, IsSpace) \ {p + 1}) \o <<p>>
  ELSE <<p>>

\* a variant of KeyEnds for the pattern ([\w\.]*), which admits an empty key
KeyEndsOrEmpty(s, p) == Desc(Runs(s, p, IsWord))

\* ([\w\.]+)
KeyEnds(s, p) == Desc(Runs(s, p, IsWord) \ {p})

\* a variant of SepEnds for the pattern (?:\s*=\s*|:\s+?)?, which admits a
\* line without separator
SepEndsOptional(s, p) ==
  LET eq == Max(Runs(s, p, IsSpace))
      viaEq == IF eq <= Len(s) /\ s[eq] = EQ
               THEN Desc(Runs(s, eq + 1, IsSpace)) ELSE <<>>
      viaColon == IF p <= Len(s) /\ s[p] = COLON
                  THEN Asc(Runs(s, p + 1, IsSpace) \ {p + 1}) ELSE <<>>
  IN  viaEq \o viaColon \o <<p>>

\* (?:\s*=\s*|:\s+?)
SepEnds(s, p) ==
  LET eq == Max(Runs(s, p, IsSpace))
      viaEq == IF eq <= Len(s) /\ s[eq] = EQ
               THEN Desc(Runs(s, eq + 1, IsSpace)) ELSE <<>>
      viaColon == IF p <= Len(s) /\ s[p] = COLON
                  THEN Asc(Runs(s, p + 1, IsSpace) \ {p + 1}) ELSE <<>>
  IN  viaEq \o viaColon

\* q(?:\q|[^q])*q  for a quote character q: both alternatives inside the
\* star together accept every character, the quote included
QuotedEnds(s, p, q) ==
  IF p <= Len(s) /\ s[p] = q
  THEN Desc({j + 1 : j \in {k \in (p + 1)..Len(s) : s[k] = q}})
  ELSE <<>>

\* a variant of ValueEnds that tries the unquoted alternative before the
\* quoted ones
ValueEndsUnquotedFirst(s, p) ==
  LET took(ends) == [k \in 1..Len(ends) |-> [part |-> TRUE, end |-> ends[k]]]
  IN  took(Desc(Runs(s, p, NotHash) \ {p}))
        \o took(QuotedEnds(s, p, SQ)) \o took(QuotedEnds(s, p, DQ))
        \o <<[part |-> FALSE, end |-> p]>>

\* ('(?:\'|[^'])*'|"(?:\"|[^"])*"|[^#\n]+)?   part = the group took part
ValueEnds(s, p) ==
  LET took(ends) == [k \in 1..Len(ends) |-> [part |-> TRUE, end |-> ends[k]]]
  IN  took(QuotedEnds(s, p, SQ)) \o took(QuotedEnds(s, p, DQ))
        \o took(Desc(Runs(s, p, NotHash) \ {p}))
        \o <<[part |-> FALSE, end |-> p]>>

\* \s*(?:\s*\#.*)?\z
RestOK(s, p) ==
  \E a \in Runs(s, p, IsSpace) :
     \/ a = Len(s) + 1
     \/ \E b \in Runs(s, a, IsSpace) : b <= Len(s) /\ s[b] = HASH

\* lineRegx.FindStringSubmatch(s): NoMatch, or <<match, group 1, group 2>>
FindStringSubmatch(s) ==
  TryFirst(SpaceEnds(s, 1), LAMBDA p1 :
    TryFirst(ExportEnds(s, p1), LAMBDA p2 :
      TryFirst(KeyEnds(s, p2), LAMBDA p3 :
        TryFirst(SepEnds(s, p3), LAMBDA p4 :
          TryFirst(ValueEnds(s, p4), LAMBDA v :
            IF RestOK(s, v.end)
            THEN <<s, SubSeq(s, p2, p3 - 1),
                   IF v.part THEN SubSeq(s, p4, v.end - 1) ELSE <<>> >>
            ELSE NoMatch)))))

----------------------------------------------------------------------------
(* Maps (map[string]string) as functions from keys to values *)

EmptyMap == [k \in {} |-> <<>>]

\* m[k] = v
Put(m, k, v) == [x \in (DOMAIN m) \cup {k} |-> IF x = k THEN v ELSE m[x]]

mergeMaps(m1, m2) ==
  [k \in (DOMAIN m1) \cup (DOMAIN m2) |-> IF k \in DOMAIN m2 THEN m2[k] ELSE m1[k]]

----------------------------------------------------------------------------
(* ReadEnvFile *)

\* the body of the scan loop: envMap after the line text has been handled
ScanLine(m, text) ==
  LET l == TrimSpace(text)
  IN  IF l = <<>> \/ l[1] = HASH
      THEN m
      ELSE LET parts == FindStringSubmatch(TrimPrefix(l, <<EXPORT, SP>>))
           IN  IF Len(parts) # 0
               THEN Put(m, removeQuotes(TrimSpace(parts[2])),
                           removeQuotes(TrimSpace(parts[3])))
               ELSE m

FileNames == {".env", "f1"}

\* A line of a file: its text, and whether it is longer than the scanner's
\* buffer may grow (bufio.MaxScanTokenSize); txt is then its beginning.
Line(t, l) == [txt |-> t, long |-> l]

NoFile == [exists |-> FALSE, lines |-> <<>>]
File(ls) == [exists |-> TRUE, lines |-> ls]

\* the local variables of a call that has not been made
Idle ==
  /\ args = <<>> /\ idx = 0 /\ file = "" /\ scanPos = 0
  /\ readMap = EmptyMap /\ loadMap = EmptyMap /\ setArg = EmptyMap
  /\ todo = {} /\ prefix = <<>> /\ names = <<>>
  /\ ret = EmptyMap /\ err = "nil" /\ sets = 0
  /\ quoteArg = <<>> /\ quoteRet = <<>>

\* a call starts when no call is running
CanCall == pc \in {"idle", "done"}

\* the calls that open files are explored while fewer than MaxHandles
\* handles are open
CanOpen(n) == handles + n <= MaxHandles

\* func ReadEnvFile(filename string): entry
ReadEnvFileCall(f) ==
  /\ CanCall /\ CanOpen(1)
  /\ call' = "ReadEnvFile" /\ pc' = "open" /\ file' = f
  /\ args' = <<>> /\ idx' = 0 /\ scanPos' = 0
  /\ readMap' = EmptyMap /\ loadMap' = EmptyMap /\ setArg' = EmptyMap
  /\ todo' = {} /\ prefix' = <<>> /\ names' = <<>>
  /\ ret' = EmptyMap /\ err' = "nil" /\ sets' = 0
  /\ UNCHANGED <<quoteArg, quoteRet>>
  /\ UNCHANGED <<fs, env, handles>>

\* the files Load reads: its arguments, or ".env" when it has none
LoadFiles(filenames) == IF Len(filenames) = 0 THEN <<".env">> ELSE filenames

\* func Load(filenames ...string): entry, up to the first ReadEnvFile
LoadCall(filenames) ==
  /\ CanCall /\ CanOpen(Len(LoadFiles(filenames)))
  /\ call' = "Load" /\ pc' = "open" /\ args' = filenames /\ idx' = 1
  /\ file' = LoadFiles(filenames)[1] /\ scanPos' = 0
  /\ readMap' = EmptyMap /\ loadMap' = EmptyMap /\ setArg' = EmptyMap
  /\ todo' = {} /\ prefix' = <<>> /\ names' = <<>>
  /\ ret' = EmptyMap /\ err' = "nil" /\ sets' = 0
  /\ UNCHANGED <<quoteArg, quoteRet>>
  /\ UNCHANGED <<fs, env, handles>>

\* os.OpenFile fails: ReadEnvFile returns (nil, err); Load wraps the error
\* and returns it
OpenFail ==
  /\ pc = "open" /\ ~fs[file].exists
  /\ pc' = "done" /\ err' = "open" /\ ret' = EmptyMap
  /\ UNCHANGED <<quoteArg, quoteRet>>
  /\ UNCHANGED <<fs, env, handles, call, args, idx, file, scanPos, readMap,
                 loadMap, setArg, todo, prefix, names, sets>>

\* os.OpenFile succeeds; envMap and the scanner are created
OpenOK ==
  /\ pc = "open" /\ fs[file].exists
  /\ handles' = handles + 1
  /\ readMap' = EmptyMap /\ scanPos' = 1 /\ pc' = "scan"
  /\ UNCHANGED <<quoteArg, quoteRet>>
  /\ UNCHANGED <<fs, env, call, args, idx, file, loadMap, setArg, todo,
                 prefix, names, ret, err, sets>>

\* scanner.Scan() delivers the next line and the loop body handles it
ScanStep ==
  /\ pc = "scan" /\ scanPos <= Len(fs[file].lines)
  /\ ~fs[file].lines[scanPos].long
  /\ readMap' = ScanLine(readMap, fs[file].lines[scanPos].txt)
  /\ scanPos' = scanPos + 1
  /\ UNCHANGED <<quoteArg, quoteRet>>
  /\ UNCHANGED <<fs, env, handles, call, pc, args, idx, file, loadMap,
                 setArg, todo, prefix, names, ret, err, sets>>

\* a variant of LoadLoopDone that hands the map to SetenvMap after every file
LoadLoopDoneEarly(i, n) == i >= 1

\* the range loop of Load is over once file i of n has been merged
LoadLoopDone(i, n) == i >= n

\* ReadEnvFile returns (envMap, nil) to its caller, leaving the file open
\* (the function has no Close).  Load merges the map and goes on to the next
\* file, or after the last one to SetenvMap.
ReadReturn ==
  /\ IF call = "ReadEnvFile"
     THEN /\ ret' = readMap /\ err' = "nil" /\ pc' = "done"
          /\ UNCHANGED <<idx, file, loadMap, setArg, todo>>
     ELSE LET merged == mergeMaps(loadMap, readMap)
          IN  /\ loadMap' = merged
              /\ idx' = idx + 1
              /\ IF LoadLoopDone(idx, Len(LoadFiles(args)))
                 THEN /\ setArg' = merged /\ todo' = DOMAIN merged
                      /\ pc' = "set" /\ UNCHANGED file
                 ELSE /\ file' = LoadFiles(args)[idx + 1] /\ pc' = "open"
                      /\ UNCHANGED <<setArg, todo>>
              /\ UNCHANGED <<ret, err>>
  /\ UNCHANGED <<quoteArg, quoteRet>>
  /\ UNCHANGED <<fs, env, handles, call, args, scanPos, readMap, prefix,
                 names, sets>>

\* scanner.Scan() returns false at the end of the file
ScanEOF ==
  /\ pc = "scan" /\ scanPos > Len(fs[file].lines)
  /\ ReadReturn

\* scanner.Scan() returns false because the next line does not fit the
\* buffer (bufio.ErrTooLong); scanner.Err() is not consulted
ScanTooLong ==
  /\ pc = "scan" /\ scanPos <= Len(fs[file].lines)
  /\ fs[file].lines[scanPos].long
  /\ ReadReturn

\* scanner.Scan() returns false because the read of the file failed;
\* scanner.Err() is not consulted
ScanReadError ==
  /\ pc = "scan" /\ scanPos <= Len(fs[file].lines)
  /\ ReadReturn

----------------------------------------------------------------------------
(* The environment table *)

\* os.Setenv and os.Unsetenv reject an empty key and a key holding '='
ValidKey(k) == k # <<>> /\ \A i \in 1..Len(k) : k[i] # EQ

\* func SetenvMap(envMap map[string]string): entry
SetenvMapCall(m) ==
  /\ CanCall
  /\ call' = "SetenvMap" /\ pc' = "set" /\ setArg' = m /\ todo' = DOMAIN m
  /\ args' = <<>> /\ idx' = 0 /\ file' = "" /\ scanPos' = 0
  /\ readMap' = EmptyMap /\ loadMap' = EmptyMap
  /\ prefix' = <<>> /\ names' = <<>>
  /\ ret' = EmptyMap /\ err' = "nil" /\ sets' = 0
  /\ UNCHANGED <<quoteArg, quoteRet>>
  /\ UNCHANGED <<fs, env, handles>>

\* one iteration of SetenvMap's range loop (the order is Go's map order:
\* any), or its return when the loop is over
SetStep ==
  /\ pc = "set"
  /\ IF todo = {}
     THEN /\ pc' = "done" /\ err' = "nil"
          /\ UNCHANGED <<env, todo, sets>>
     ELSE \E k \in todo :
            IF ValidKey(k)
            THEN /\ env' = Put(env, k, setArg[k])
                 /\ sets' = sets + 1
                 /\ todo' = todo \ {k}
                 /\ UNCHANGED <<pc, err>>
            ELSE /\ pc' = "done" /\ err' = "setenv"
                 /\ UNCHANGED <<env, todo, sets>>
  /\ UNCHANGED <<quoteArg, quoteRet>>
  /\ UNCHANGED <<fs, handles, call, args, idx, file, scanPos, readMap,
                 loadMap, setArg, prefix, names, ret>>

\* strings.Split(s, sep) for a separator of one character
RECURSIVE Split(_, _)
Split(s, sep) ==
  LET at == {i \in 1..Len(s) : s[i] = sep}
  IN  IF at = {} THEN <<s>>
      ELSE <<SubSeq(s, 1, Min(at) - 1)>> \o Split(SubSeq(s, Min(at) + 1, Len(s)), sep)

\* os.Environ(): one "key=value" string per variable
Environ(e) == {k \o <<EQ>> \o e[k] : k \in DOMAIN e}

\* the body of GetenvMap: the map it builds from the table e
GetenvMap(e, p) ==
  LET kept == {v \in Environ(e) : HasPrefix(Split(v, EQ)[1], p) \/ p = <<>>}
  IN  [k \in {Split(v, EQ)[1] : v \in kept} |->
         Split(CHOOSE v \in kept : Split(v, EQ)[1] = k, EQ)[2]]

\* func GetenvMap(prefix string)
GetenvMapCall(p) ==
  /\ CanCall
  /\ call' = "GetenvMap" /\ pc' = "done" /\ prefix' = p
  /\ ret' = GetenvMap(env, p) /\ err' = "nil"
  /\ args' = <<>> /\ idx' = 0 /\ file' = "" /\ scanPos' = 0
  /\ readMap' = EmptyMap /\ loadMap' = EmptyMap /\ setArg' = EmptyMap
  /\ todo' = {} /\ names' = <<>> /\ sets' = 0
  /\ UNCHANGED <<quoteArg, quoteRet>>
  /\ UNCHANGED <<fs, env, handles>>

\* the table after os.Unsetenv of every name (os.Unsetenv returns no error)
Unset(e, ns) == [k \in (DOMAIN e) \ {ns[i] : i \in 1..Len(ns)} |-> e[k]]

\* func ClearEnvSetting(envNames ...string)
ClearEnvSettingCall(ns) ==
  /\ CanCall
  /\ call' = "ClearEnvSetting" /\ pc' = "done" /\ names' = ns
  /\ env' = Unset(env, ns) /\ err' = "nil" /\ ret' = EmptyMap
  /\ args' = <<>> /\ idx' = 0 /\ file' = "" /\ scanPos' = 0
  /\ readMap' = EmptyMap /\ loadMap' = EmptyMap /\ setArg' = EmptyMap
  /\ todo' = {} /\ prefix' = <<>> /\ sets' = 0
  /\ UNCHANGED <<quoteArg, quoteRet>>
  /\ UNCHANGED <<fs, handles>>

----------------------------------------------------------------------------
(* The inputs explored *)

\* the sequences over S of length at most n
SeqsUpTo(S, n) == UNION {[1..k -> S] : k \in 0..n}

K == <<"K">>
J == <<"J">>

\* the table the process starts with
StartEnv == [k \in {K, <<"H">>} |-> IF k = K THEN <<"1">> ELSE <<"a">>]

\* Spec: the lines the files are made of
FileLines ==
  { Line(<<"K", EQ, "a">>, FALSE), Line(<<"K", EQ, "b">>, FALSE),
    Line(<<"J", EQ, "a">>, FALSE), Line(<<HASH, "a">>, TRUE) }

\* Spec: "f1" is missing or holds any file of at most MaxLines such lines;
\* ".env" is missing or holds one assignment
FileContents(f) ==
  IF f = "f1"
  THEN {NoFile} \cup {File(ls) : ls \in SeqsUpTo(FileLines, MaxLines)}
  ELSE {NoFile, File(<<Line(<<"J", EQ, "b">>, FALSE)>>),
        File(<<Line(<<"K", EQ, "b">>, FALSE)>>)}

Init ==
  /\ fs \in {f \in [FileNames -> UNION {FileContents(n) : n \in FileNames}] :
               \A n \in FileNames : f[n] \in FileContents(n)}
  /\ env = StartEnv /\ handles = 0
  /\ call = "none" /\ pc = "idle" /\ Idle

Next ==
  \/ \E f \in FileNames : ReadEnvFileCall(f)
  \/ \E fl \in SeqsUpTo(FileNames, MaxFiles) : LoadCall(fl)
  \/ OpenFail
  \/ OpenOK
  \/ ScanStep
  \/ ScanEOF
  \/ ScanTooLong
  \/ ScanReadError
  \/ SetStep

Spec == Init /\ [][Next]_vars

\* SpecEnv: the maps handed to SetenvMap, the prefixes and the names
EnvKeys == {K, <<"K", "J">>, <<>>}
EnvValues == {<<"a">>, <<"a", EQ, "b">>, <<>>}
EnvMaps == UNION {[ks -> EnvValues] : ks \in SUBSET EnvKeys}
Prefixes == {<<>>, K, J}

InitEnv ==
  /\ fs = [f \in FileNames |-> NoFile]
  /\ env \in {StartEnv, [k \in {<<"H">>} |-> <<"a">>]} /\ handles = 0
  /\ call = "none" /\ pc = "idle" /\ Idle

NextEnv ==
  \/ \E m \in EnvMaps : SetenvMapCall(m)
  \/ SetStep
  \/ \E p \in Prefixes : GetenvMapCall(p)
  \/ \E ns \in SeqsUpTo(EnvKeys \ {<<>>}, MaxNames) : ClearEnvSettingCall(ns)

SpecEnv == InitEnv /\ [][NextEnv]_vars

\* SpecLine: one call of ReadEnvFile on a file of two lines, the first
\* J=b and the second any beginning of LineHeads followed by any string
\* of at most MaxTail symbols of TailSymbols; or on an empty file
LineHeads ==
  { <<>>, <<"K">>, <<"K", EQ>>, <<"K", SP, EQ, SP>>, <<"K", COLON>>,
    <<"K", COLON, SP>>, <<EXPORT>>, <<EXPORT, EQ>>, <<EXPORT, SP, EQ>>,
    <<EXPORT, SP, "K", EQ>>, <<EXPORT, SP, EXPORT, SP, "K", EQ>>,
    <<EQ>>, <<"a", "-", "b", EQ>>, <<SP, "K", EQ>>, <<HASH>> }
TailSymbols == {"a", SQ, DQ, HASH, SP, "\\"}
Lines == {h \o t : h \in LineHeads, t \in SeqsUpTo(TailSymbols, MaxTail)}
BaseLine == <<"J", EQ, "b">>

InitLine ==
  /\ fs \in {[f \in FileNames |-> IF f = "f1" THEN c ELSE NoFile] :
               c \in {File(<<>>)} \cup
                      {File(<<Line(BaseLine, FALSE), Line(l, FALSE)>>) : l \in Lines}}
  /\ env = StartEnv /\ handles = 0
  /\ call = "none" /\ pc = "idle" /\ Idle

NextLine ==
  \/ pc = "idle" /\ ReadEnvFileCall("f1")
  \/ OpenOK
  \/ ScanStep
  \/ ScanEOF

SpecLine == InitLine /\ [][NextLine]_vars

\* SpecQuote: one call of removeQuotes on any string of at most MaxQuoteLen
\* symbols of QuoteSymbols
QuoteSymbols == {SQ, DQ, "a", SP}

InitQuote ==
  /\ fs = [f \in FileNames |-> NoFile] /\ env = StartEnv /\ handles = 0
  /\ call = "none" /\ pc = "idle"
  /\ args = <<>> /\ idx = 0 /\ file = "" /\ scanPos = 0
  /\ readMap = EmptyMap /\ loadMap = EmptyMap /\ setArg = EmptyMap
  /\ todo = {} /\ prefix = <<>> /\ names = <<>>
  /\ ret = EmptyMap /\ err = "nil" /\ sets = 0
  /\ quoteArg \in SeqsUpTo(QuoteSymbols, MaxQuoteLen) /\ quoteRet = <<>>

\* func removeQuotes(s string) string
RemoveQuotesCall ==
  /\ pc = "idle"
  /\ call' = "removeQuotes" /\ pc' = "done"
  /\ quoteRet' = removeQuotes(quoteArg)
  /\ UNCHANGED <<fs, env, handles, args, idx, file, scanPos, readMap,
                 loadMap, setArg, todo, prefix, names, ret, err, sets,
                 quoteArg>>

NextQuote == RemoveQuotesCall

SpecQuote == InitQuote /\ [][NextQuote]_vars

----------------------------------------------------------------------------
(* The grammar of a line as the documentation states it, independent of   *)
(* lineRegx:  line := key separator value? trailing_comment?               *)

\* length of the run of key characters a string begins with
KeyLen(l) == Max(Runs(l, 1, IsWord)) - 1

\* a separator starts at position p:  optional_ws '=' ...  or  ':' ws
SeparatorAt(l, p) ==
  \/ LET e == Max(Runs(l, p, IsSpace)) IN e <= Len(l) /\ l[e] = EQ
  \/ p < Len(l) /\ l[p] = COLON /\ IsSpace(l[p + 1])

\* l begins with a key and a separator; whatever follows is a value and a
\* comment, since an unquoted value is any run without '#'
FitsGrammar(l) == KeyLen(l) >= 1 /\ SeparatorAt(l, KeyLen(l) + 1)

GrammarKey(l) == SubSeq(l, 1, KeyLen(l))

\* l without one leading "export" keyword and the whitespace after it
StripExport(l) ==
  IF Len(l) >= 2 /\ l[1] = EXPORT /\ IsSpace(l[2])
  THEN SubSeq(l, Max(Runs(l, 2, IsSpace)), Len(l))
  ELSE l

\* no key and separator begin l, however many export keywords are removed
RECURSIVE NeverFits(_)
NeverFits(l) ==
  /\ ~FitsGrammar(l)
  /\ StripExport(l) = l \/ NeverFits(StripExport(l))

\* the second line of the file of SpecLine, once the scan loop has handled it
Handled == call = "ReadEnvFile" /\ scanPos = 3
TheLine == fs["f1"].lines[2].txt

\* envMap after the first line of that file, J=b
BaseMap == [k \in {J} |-> <<"b">>]

\* the lines of file f, and the keys its assignment lines assign
LinesOf(f) == fs[f].lines
AssignLines(ls) == {i \in 1..Len(ls) : FitsGrammar(ls[i].txt)}
FileKeys(ls) == {GrammarKey(ls[i].txt) : i \in AssignLines(ls)}

\* the keys that several lines of ls assign
SeveralTimes(ls) ==
  {k \in FileKeys(ls) :
     Cardinality({i \in AssignLines(ls) : GrammarKey(ls[i].txt) = k}) >= 2}

\* the value of a line KEY=value whose value is plain (no quote, comment
\* or whitespace), as all assignment lines of FileLines are
PlainValue(l) == SubSeq(l, KeyLen(l) + 2, Len(l))

\* the value of the last line of ls that assigns k
LastValue(ls, k) ==
  PlainValue(ls[Max({i \in AssignLines(ls) : GrammarKey(ls[i].txt) = k})].txt)

Returned(c) == call = c /\ pc = "done"

----------------------------------------------------------------------------
(* Claims *)

\* C1: when a file of Load cannot be opened, Load returns the error and has
\* made no os.Setenv call, also for the keys of the files read before; and
\* in every execution of Load all files are read before the first set:
\* while a file is opened or scanned no set has been made, and once the
\* sets begin every file has been read.
C1_ReadsBeforeSets ==
  call = "Load" =>
    /\ (pc = "done" /\ err = "open") => sets = 0
    /\ pc \in {"open", "scan"} => sets = 0
    /\ (pc = "set" \/ sets > 0) => idx > Len(LoadFiles(args))

\* Load has read a first file that assigns a key, and failed to open the
\* second
C1_Witness ==
  /\ Returned("Load") /\ err = "open"
  /\ idx = 2 /\ DOMAIN loadMap # {}

\* C2: when ReadEnvFile returns a nil error, the mapping has an entry for
\* every assignment line of the file, whatever the length of the lines and
\* whether or not the read failed partway.
C2_CompleteOrError ==
  (Returned("ReadEnvFile") /\ err = "nil") =>
    \A k \in FileKeys(LinesOf(file)) : k \in DOMAIN ret

\* C3: the last assignment in reading order wins: the mapping ReadEnvFile
\* returns holds, for every key assigned in the file, the value of the last
\* line that assigns it; and after a successful Load the environment holds,
\* for every key assigned in any file, the value of its last assignment in
\* the last file (in argument order) that assigns it.
C3_LastAssignmentWins ==
  /\ (Returned("ReadEnvFile") /\ err = "nil") =>
       \A k \in SeveralTimes(LinesOf(file)) :
          k \in DOMAIN ret /\ ret[k] = LastValue(LinesOf(file), k)
  /\ (Returned("Load") /\ err = "nil") =>
       LET files == LoadFiles(args)
       IN  \A k \in UNION {FileKeys(LinesOf(files[i])) : i \in 1..Len(files)} :
             LET last == Max({i \in 1..Len(files) : k \in FileKeys(LinesOf(files[i]))})
             IN  k \in DOMAIN env /\ env[k] = LastValue(LinesOf(files[last]), k)

\* C10: ReadEnvFile holds no file handle after it returns: whenever no call
\* is running, no handle opened by ReadEnvFile or Load is still open.
C10_NoOpenHandle == pc \in {"idle", "done"} => handles = 0

\* position where the value of a line that fits the grammar starts
ValueStart(l) ==
  LET e == Max(Runs(l, KeyLen(l) + 1, IsSpace))
  IN  IF e <= Len(l) /\ l[e] = EQ
      THEN Max(Runs(l, e + 1, IsSpace))
      ELSE Max(Runs(l, KeyLen(l) + 2, IsSpace))

\* the unescaped occurrences, after position v, of the quote at position v
Closings(l, v) == {i \in (v + 1)..Len(l) : l[i] = l[v] /\ l[i - 1] # "\\"}

\* what follows position c is optional whitespace and an optional comment
OnlyComment(l, c) ==
  LET a == Max(Runs(l, c + 1, IsSpace)) IN a = Len(l) + 1 \/ l[a] = HASH

\* the entry of m for the key of line l is v
Records(m, l, v) == GrammarKey(l) \in DOMAIN m /\ m[GrammarKey(l)] = v

\* a line (without export prefix) whose value is quoted, closed, and
\* followed by nothing but a comment
QuotedLine(l) ==
  /\ FitsGrammar(l) /\ StripExport(l) = l /\ ValueStart(l) <= Len(l)
  /\ l[ValueStart(l)] \in {SQ, DQ}
  /\ Closings(l, ValueStart(l)) # {}
  /\ OnlyComment(l, Min(Closings(l, ValueStart(l))))

\* C4: for a line whose value starts with a quote character, the quoted
\* value ends at the first unescaped occurrence of that character: the
\* recorded value is the text between the two, and the whitespace and
\* comment after the closing quote (a comment that holds quote characters
\* included) are not part of it.
C4_FirstClosingQuote ==
  (Handled /\ QuotedLine(TheLine)) =>
    Records(readMap, TheLine,
            SubSeq(TheLine, ValueStart(TheLine) + 1,
                   Min(Closings(TheLine, ValueStart(TheLine))) - 1))

\* a line KEY=<q>text<q> where text holds no q
QuotedForm(l) ==
  LET n == KeyLen(l)
  IN  /\ n >= 1 /\ Len(l) >= n + 3 /\ l[n + 1] = EQ
      /\ l[n + 2] \in {SQ, DQ} /\ l[Len(l)] = l[n + 2]
      /\ \A i \in (n + 3)..(Len(l) - 1) : l[i] # l[n + 2]

\* a line KEY=text where text does not begin (after whitespace) with a quote
UnquotedForm(l) ==
  LET n == KeyLen(l)
      text == TrimSpace(SubSeq(l, n + 2, Len(l)))
  IN  /\ n >= 1 /\ Len(l) >= n + 1 /\ l[n + 1] = EQ
      /\ text = <<>> \/ text[1] \notin {SQ, DQ}

\* the part of s before its first '#'
BeforeHash(s) ==
  LET at == {i \in 1..Len(s) : s[i] = HASH}
  IN  IF at = {} THEN s ELSE SubSeq(s, 1, Min(at) - 1)

\* C5: a '#' starts a comment only outside quotes: for a line KEY=<q>text<q>
\* whose text holds no q the recorded value is text, any '#' included; for a
\* line KEY=text with an unquoted text it is the part of text before the
\* first '#', without the surrounding whitespace.
C5_HashOutsideQuotes ==
  Handled =>
    /\ QuotedForm(TheLine) =>
         Records(readMap, TheLine,
                 SubSeq(TheLine, KeyLen(TheLine) + 3, Len(TheLine) - 1))
    /\ UnquotedForm(TheLine) =>
         Records(readMap, TheLine,
                 TrimSpace(BeforeHash(SubSeq(TheLine, KeyLen(TheLine) + 2,
                                             Len(TheLine)))))

\* a quoted value holding a '#' has been recorded
C5_Witness ==
  /\ Handled /\ QuotedForm(TheLine)
  /\ \E i \in 1..Len(TheLine) : TheLine[i] = HASH
  /\ K \in DOMAIN readMap /\ \E i \in 1..Len(readMap[K]) : readMap[K][i] = HASH

\* C6: the export prefix is transparent: for a line L that fits the grammar
\* (the key "export" included), the line "export " followed by L yields the
\* entry that L alone yields, and L alone yields one whenever the other does.
C6_ExportTransparent ==
  (Handled /\ FitsGrammar(TheLine)) =>
    readMap = ScanLine(BaseMap, <<EXPORT, SP>> \o TheLine)

\* a line K= , and a line that is the bare token K
EmptyValueLine(l) == KeyLen(l) >= 1 /\ Len(l) = KeyLen(l) + 1 /\ l[Len(l)] = EQ
BareKeyLine(l) == KeyLen(l) >= 1 /\ Len(l) = KeyLen(l)

\* C7 (as stated): a key with no value is still recorded: the line K= and
\* the bare token K each add the entry K -> "".
C7_NoValueRecorded ==
  (Handled /\ (EmptyValueLine(TheLine) \/ BareKeyLine(TheLine))) =>
    Records(readMap, TheLine, <<>>)

\* C7 (amended): the line K= adds the entry K -> ""; the bare token K, with
\* no separator, adds no entry and leaves the mapping as it was.
C7_EmptyValueRecorded ==
  Handled =>
    /\ EmptyValueLine(TheLine) => Records(readMap, TheLine, <<>>)
    /\ BareKeyLine(TheLine) => readMap = BaseMap

\* the bare token K has been handled and has added nothing
C7_Witness ==
  /\ Handled /\ TheLine = <<"K">>
  /\ readMap = BaseMap

\* a line that the loader is to skip: blank, a comment, or without a key
\* and separator at its start
SkippedLine(l) ==
  LET t == TrimSpace(l)
  IN  t = <<>> \/ t[1] = HASH \/ NeverFits(t)

OnlyUnder(m, p, e) ==
  /\ \A k \in DOMAIN m : HasPrefix(k, p)
  /\ \A k \in (DOMAIN e) \ (DOMAIN m) : ~HasPrefix(k, p)

\* C9: SetenvMap followed by GetenvMap is a round trip: when SetenvMap(m)
\* has returned nil and GetenvMap(p) is called next, for a prefix p that
\* all keys of m and no other variable begin with, the map returned equals
\* m, values holding '=' included; and a GetenvMap called right after
\* ClearEnvSetting returns none of the names cleared.
C9_RoundTrip ==
  [][ /\ (Returned("SetenvMap") /\ err = "nil" /\ call' = "GetenvMap"
            /\ OnlyUnder(setArg, prefix', env)) => ret' = setArg
      /\ (Returned("ClearEnvSetting") /\ call' = "GetenvMap") =>
            \A i \in 1..Len(names) : names[i] \notin DOMAIN ret' ]_vars

\* s is at least two characters long and begins and ends with the same
\* quote character
Paired(s) ==
  /\ Len(s) >= 2
  /\ \E q \in {DQ, SQ} : s[1] = q /\ s[Len(s)] = q

\* C11: removeQuotes(s) returns s without its first and last character
\* exactly when s has length >= 2 and begins and ends with the same quote
\* character, and s unchanged otherwise (length 0 or 1, no quotes, a quote
\* at one end only, two different quotes); it strips one pair at most.
C11_RemoveQuotes ==
  Returned("removeQuotes") =>
    IF Paired(quoteArg)
    THEN /\ Len(quoteRet) = Len(quoteArg) - 2
         /\ \A i \in 1..Len(quoteRet) : quoteRet[i] = quoteArg[i + 1]
    ELSE quoteRet = quoteArg

\* removeQuotes has stripped one pair of a doubly quoted string and left
\* the inner pair
C11_Witness ==
  /\ Returned("removeQuotes")
  /\ quoteArg = <<SQ, SQ, SQ, SQ>> /\ quoteRet = <<SQ, SQ>>

====
